---- MODULE Spec2Model ----
(***************************************************************************)
(* Model of the web crawler: the asyncio crawl of api.py behind the POST   *)
(* handler, and the synchronous recursive crawl of crawler.py behind       *)
(* main.py.  One invocation claims URLs in a shared visited set, fetches   *)
(* them, scans their links and merges the children's result dicts.         *)
(***************************************************************************)
EXTENDS Integers, Sequences, FiniteSets, TLC

(***************************************************************************)
(* Strings are kept as what urlparse splits them into: scheme, netloc and  *)
(* path.  "http://h/b" is Str("http","h","/b"), the relative href "/b" is  *)
(* Str("","","/b"), the dict key 'depth' is Str("","","depth").            *)
(***************************************************************************)
Str(s, n, p) == [scheme |-> s, netloc |-> n, path |-> p]

A == Str("http", "h", "/a")
B == Str("http", "h", "/b")
C == Str("http", "h", "/c")
D == Str("http", "h", "/d")
E == Str("http", "h", "/e")
F == Str("http", "h", "/f")
Pages == {A, B, C, D, E, F}

RelA     == Str("", "", "/a")          \* href="/a"
RelB     == Str("", "", "/b")          \* href="/b"
Mailto   == Str("mailto", "", "x")     \* href="mailto:x"
EmptyRef == Str("", "", "")            \* href=""
BadRef   == Str("http", "[", "")       \* href="http://[" : urlsplit raises ValueError
NoScheme == Str("", "", "invalid-url") \* the string "invalid-url"
DepthKey == Str("", "", "depth")       \* the string 'depth'

\* bounds of the model
MaxDepth == 3
MaxFailures == 1

\* the size of the pool of fetches the crawl is measured against
MaxInFlight == 2

Depths == -1 .. MaxDepth
Seeds == {A, NoScheme, BadRef}

\* urlsplit raises ValueError("Invalid IPv6 URL") on an unbalanced '[' in the netloc
UrlparseRaises(u) == u.netloc = "["

\* crawler.py is_valid: no try/except, only meaningful when urlparse does not raise
is_valid(u) == u.netloc # "" /\ u.scheme # ""

\* api.py is_valid: the same test, any exception of urlparse turned into False
is_valid_api(u) == IF UrlparseRaises(u) THEN FALSE ELSE u.netloc # "" /\ u.scheme # ""

\* urljoin(base, href) raises when urlparse of either argument does
UrljoinRaises(base, href) == UrlparseRaises(base) \/ UrlparseRaises(href)

\* urljoin(base, href): an href with a scheme of its own passes through, an href
\* with a netloc only takes the base's scheme, a path-only href takes the base's
\* scheme and netloc, an empty href is the base
urljoin(base, href) ==
    IF href.scheme # "" /\ href.scheme # base.scheme THEN href
    ELSE IF href.netloc # "" THEN Str(base.scheme, href.netloc, href.path)
    ELSE IF href.path # "" THEN Str(base.scheme, base.netloc, href.path)
    ELSE base

\* a dict as a function; d.update(e)
EmptyDict == [k \in {} |-> 0]

\* Update that leaves d as it was
UpdateDropsNew(d, e) == d

\* d.update(e)
Update(d, e) == [k \in (DOMAIN d) \cup (DOMAIN e) |-> IF k \in DOMAIN e THEN e[k] ELSE d[k]]

(***************************************************************************)
(* The static sites crawled: for every page the href attributes of its <a> *)
(* elements, in document order.                                            *)
(***************************************************************************)
NoLinks == [p \in Pages |-> <<>>]
Site(f) == [p \in Pages |-> IF p \in DOMAIN f THEN f[p] ELSE <<>>]

Mutual  == Site((A :> <<B>>) @@ (B :> <<A>>))
SelfRep == Site((A :> <<A, RelA, B, RelB>>) @@ (B :> <<B>>))
Diamond == Site((A :> <<B, C>>) @@ (B :> <<D>>) @@ (C :> <<D>>))
Fan     == Site((A :> <<B, C, D>>))
Chain   == Site((A :> <<B, C>>) @@ (B :> <<C>>) @@ (C :> <<D>>))
Skew    == Site((A :> <<B, C>>) @@ (B :> <<D>>) @@ (C :> <<E>>) @@ (E :> <<D>>) @@ (D :> <<F>>))
Mixed   == Site((A :> <<Mailto, EmptyRef, RelB, C>>) @@ (B :> <<C, BadRef, D>>))
Fixtures == {Mutual, SelfRep, Diamond, Fan, Chain, Skew, Mixed}

\* every directed graph on three pages, self-links included: each page links
\* to any subset of the three, listed in the order A, B, C
Small == {A, B, C}
Listed(S) == SelectSeq(<<A, B, C>>, LAMBDA p : p \in S)
SmallSites == {Site([p \in Small |-> Listed(g[p])]) : g \in [Small -> SUBSET Small]}

Sites == Fixtures \cup SmallSites

\* the pages a site's links can lead to from page A
RECURSIVE Reach(_, _, _)
Reach(site, done, todo) ==
    IF todo = {} THEN done
    ELSE LET p == CHOOSE x \in todo : TRUE
             next == {urljoin(p, site[p][i]) : i \in 1..Len(site[p])} \cap Pages
         IN Reach(site, done \cup {p}, (todo \cup next) \ (done \cup {p}))


(***************************************************************************)
(* State.                                                                  *)
(***************************************************************************)
VARIABLES
    impl,       \* "api" (api.py, POST /api/crawl) or "crawler" (main.py + crawler.py)
    seed,       \* the url of the request
    depth,      \* the depth of the request
    depthIsInt, \* api.py only: whether isinstance(depth, int) holds of the JSON depth
    depthIsBool,\* api.py only: the JSON depth is true or false, a bool, which is an int (1 or 0) to isinstance
    site,       \* the pages served: page -> hrefs of its <a> elements
    outcome,    \* what the server does for each page: "ok", "conn" (no response), "status" (HTTP error status)
    phase,      \* "request", "running", "returned", "raised", "rejected"
    visited,    \* the visited set of the invocation
    tasks,      \* api.py: the crawl coroutines of the invocation, by task number
    readyq,     \* api.py: the event loop's FIFO of tasks ready to take a step
    stack,      \* crawler.py: the call stack of crawl frames, innermost last
    retval,     \* the dict the top-level crawl returned
    claimed,    \* history: <<url, current_depth>> of every visited.add, in order
    fetched,    \* history: the url of every request issued, in order
    calls,      \* history: <<url, current_depth>> of every crawl(...) call, in order
    run,        \* 1 for the first invocation, 2 for the repeated one
    prev        \* what the first invocation ended with

vars == <<impl, seed, depth, depthIsInt, depthIsBool, site, outcome, phase, visited, tasks,
          readyq, stack, retval, claimed, fetched, calls, run, prev>>

inputs == <<impl, seed, depth, depthIsInt, depthIsBool, site, outcome>>

\* the fetch outcomes drawn: failures on the named sites, of pages the links
\* lead to, MaxFailures of them at most
Outcomes(s) ==
    {o \in [Pages -> {"ok", "conn", "status"}] :
        /\ s \notin Fixtures => \A p \in Pages : o[p] = "ok"
        /\ \A p \in Pages : o[p] # "ok" => p \in Reach(s, {}, {A})
        /\ Cardinality({p \in Pages : o[p] # "ok"}) <= MaxFailures}

Init ==
    /\ impl \in {"api", "crawler"}
    /\ seed \in Seeds
    /\ depth \in Depths
    /\ depthIsInt \in BOOLEAN
    /\ depthIsInt = FALSE => impl = "api" /\ seed = A /\ depth = 1
    /\ depthIsBool \in BOOLEAN
    /\ depthIsBool => impl = "api" /\ seed = A /\ depthIsInt /\ depth \in {0, 1}
    /\ site \in Sites
    /\ outcome \in Outcomes(site)
    /\ phase = "request"
    /\ visited = {}
    /\ tasks = <<>>
    /\ readyq = <<>>
    /\ stack = <<>>
    /\ retval = EmptyDict
    /\ claimed = <<>>
    /\ fetched = <<>>
    /\ calls = <<>>
    /\ run = 1
    /\ prev = [phase |-> "none", retval |-> EmptyDict]

\* what a fetch of url gives: the page's hrefs, or nothing
Served(url) == url \in Pages /\ outcome[url] # "conn"

(***************************************************************************)
(* The scan of a page's <a> elements (api.py 96-104, crawler.py 23-31):    *)
(* the valid joined links in document order, up to the first href whose    *)
(* urljoin raises.                                                         *)
(***************************************************************************)
RECURSIVE Scan(_, _, _)
Scan(url, hrefs, acc) ==
    IF hrefs = <<>> THEN [links |-> acc, raised |-> FALSE]
    ELSE LET href == Head(hrefs) IN
         IF href = EmptyRef THEN Scan(url, Tail(hrefs), acc)
         ELSE IF UrljoinRaises(url, href) THEN [links |-> acc, raised |-> TRUE]
         ELSE LET full_url == urljoin(url, href) IN
              IF is_valid_api(full_url) THEN Scan(url, Tail(hrefs), Append(acc, full_url))
              ELSE Scan(url, Tail(hrefs), acc)

(***************************************************************************)
(* api.py: POST /api/crawl                                                 *)
(***************************************************************************)
\* NewTask with a child's depth one too deep
NewTaskDeeper(url, cd, parent) ==
    [url |-> url, cd |-> IF parent = 0 THEN cd ELSE cd + 1, pc |-> "start",
     parent |-> parent, result |-> EmptyDict, kids |-> <<>>]

\* crawl 75-78: a call of the coroutine, not yet run
NewTask(url, cd, parent) ==
    [url |-> url, cd |-> cd, pc |-> "start", parent |-> parent,
     result |-> EmptyDict, kids |-> <<>>]

\* post(): 400 on an invalid url or depth, else run the crawl to completion
Post ==
    /\ impl = "api"
    /\ phase = "request"
    /\ IF ~is_valid_api(seed) \/ ~depthIsInt \/ depth < 1
       THEN /\ phase' = "rejected"
            /\ UNCHANGED <<tasks, readyq, calls>>
       ELSE /\ phase' = "running"
            /\ tasks' = <<NewTask(seed, 0, 0)>>
            /\ readyq' = <<1>>
            /\ calls' = <<<<seed, 0>>>>
    /\ UNCHANGED <<inputs, visited, stack, retval, claimed, fetched, run, prev>>

\* the step of the event loop that runs task t
Running(t, pc) ==
    /\ impl = "api"
    /\ phase = "running"
    /\ readyq # <<>>
    /\ t = Head(readyq)
    /\ tasks[t].pc = pc

\* GatherDone as a wait for the first child only
GatherDoneOnFirst(ts, parent) ==
    \E i \in 1..Len(ts[parent].kids) : ts[ts[parent].kids[i]].pc = "done"

\* gather 106: the awaited future is done when every child task is
GatherDone(ts, parent) ==
    \A i \in 1..Len(ts[parent].kids) : ts[ts[parent].kids[i]].pc = "done"

\* the coroutine of t returns res: the top-level one ends the invocation, the
\* last child of a gather wakes its parent up
Finish(t, res) ==
    LET done == [tasks EXCEPT ![t].pc = "done", ![t].result = res]
        parent == tasks[t].parent
    IN  /\ tasks' = done
        /\ IF parent = 0
           THEN /\ phase' = "returned"
                /\ retval' = res
                /\ readyq' = Tail(readyq)
           ELSE /\ UNCHANGED <<phase, retval>>
                /\ readyq' = IF GatherDone(done, parent)
                             THEN Append(Tail(readyq), parent)
                             ELSE Tail(readyq)

\* ApiPruned without the visited test
ApiPrunedIgnoresVisited(url, cd) == cd > depth

\* crawl 81: current_depth > depth or url in visited
ApiPruned(url, cd) == cd > depth \/ url \in visited

\* crawl 102: current_depth < depth
ApiRecurses(cd) == cd < depth

\* ApiPrune returning a record of the url with no links
ApiPruneRecords(t) ==
    /\ Running(t, "start")
    /\ ApiPruned(tasks[t].url, tasks[t].cd)
    /\ Finish(t, tasks[t].url :> <<>>)
    /\ UNCHANGED <<inputs, visited, stack, claimed, fetched, calls, run, prev>>

\* crawl 81-82: past the depth or already visited
ApiPrune(t) ==
    /\ Running(t, "start")
    /\ ApiPruned(tasks[t].url, tasks[t].cd)
    /\ Finish(t, EmptyDict)
    /\ UNCHANGED <<inputs, visited, stack, claimed, fetched, calls, run, prev>>

\* crawl 84-89: claim the url and issue its request; the coroutine suspends there
ApiClaim(t) ==
    /\ Running(t, "start")
    /\ ~ApiPruned(tasks[t].url, tasks[t].cd)
    /\ visited' = visited \cup {tasks[t].url}
    /\ tasks' = [tasks EXCEPT ![t].pc = "fetching",
                              ![t].result = (tasks[t].url :> <<>>) @@ (DepthKey :> tasks[t].cd)]
    /\ readyq' = Tail(readyq)
    /\ claimed' = Append(claimed, <<tasks[t].url, tasks[t].cd>>)
    /\ fetched' = Append(fetched, tasks[t].url)
    /\ UNCHANGED <<inputs, phase, stack, retval, calls, run, prev>>

\* fetch 66-73: the response, an error or the timeout arrives; t becomes ready
ApiFetchDone(t) ==
    /\ impl = "api"
    /\ phase = "running"
    /\ t \in 1..Len(tasks)
    /\ tasks[t].pc = "fetching"
    /\ tasks' = [tasks EXCEPT ![t].pc = "fetched"]
    /\ readyq' = Append(readyq, t)
    /\ UNCHANGED <<inputs, phase, visited, stack, retval, claimed, fetched, calls, run, prev>>

\* fetch 68-73: the text of a successful response, None for anything else
FetchOk(url) == url \in Pages /\ outcome[url] = "ok"

\* ApiFetchFailed returning {} in place of result
ApiFetchFailedDrops(t) ==
    /\ Running(t, "fetched")
    /\ ~FetchOk(tasks[t].url)
    /\ Finish(t, EmptyDict)
    /\ UNCHANGED <<inputs, visited, stack, claimed, fetched, calls, run, prev>>

\* crawl 90-91: html is None
ApiFetchFailed(t) ==
    /\ Running(t, "fetched")
    /\ ~FetchOk(tasks[t].url)
    /\ Finish(t, tasks[t].result)
    /\ UNCHANGED <<inputs, visited, stack, claimed, fetched, calls, run, prev>>

\* crawl 93-106 and 110-112: scan the links; an exception ends the crawl of this
\* page with what it has; with no tasks gather is already done; otherwise the
\* children are scheduled in order and the coroutine suspends on the gather
ApiParse(t) ==
    /\ Running(t, "fetched")
    /\ FetchOk(tasks[t].url)
    /\ LET url == tasks[t].url
           scan == Scan(url, site[url], <<>>)
           result == [tasks[t].result EXCEPT ![url] = scan.links]
           spawn == IF ApiRecurses(tasks[t].cd) THEN scan.links ELSE <<>>
           n == Len(tasks)
       IN  IF scan.raised \/ spawn = <<>>
           THEN Finish(t, result) /\ UNCHANGED calls
           ELSE /\ tasks' = [tasks EXCEPT ![t].pc = "gathering",
                                          ![t].result = result,
                                          ![t].kids = [i \in 1..Len(spawn) |-> n + i]]
                             \o [i \in 1..Len(spawn) |-> NewTask(spawn[i], tasks[t].cd + 1, t)]
                /\ readyq' = Tail(readyq) \o [i \in 1..Len(spawn) |-> n + i]
                /\ calls' = calls \o [i \in 1..Len(spawn) |-> <<spawn[i], tasks[t].cd + 1>>]
                /\ UNCHANGED <<phase, retval>>
    /\ UNCHANGED <<inputs, visited, stack, claimed, fetched, run, prev>>

\* crawl 107-109: result.update(res) for the children's results, in task order
RECURSIVE MergeAll(_, _)
MergeAll(result, dicts) ==
    IF dicts = <<>> THEN result
    ELSE MergeAll(Update(result, Head(dicts)), Tail(dicts))

\* crawl 106-116: the gather is done; merge and return
ApiMerge(t) ==
    /\ Running(t, "gathering")
    /\ Finish(t, MergeAll(tasks[t].result,
                          [i \in 1..Len(tasks[t].kids) |-> tasks[tasks[t].kids[i]].result]))
    /\ UNCHANGED <<inputs, visited, stack, claimed, fetched, calls, run, prev>>


(***************************************************************************)
(* crawler.py behind main.py: the recursion as a stack of frames           *)
(***************************************************************************)
NewFrame(url, cd) == [url |-> url, cd |-> cd, pc |-> "entry", i |-> 1, result |-> EmptyDict]

\* main(): no validation of the url, any int as the depth
Main ==
    /\ impl = "crawler"
    /\ phase = "request"
    /\ phase' = "running"
    /\ stack' = <<NewFrame(seed, 0)>>
    /\ calls' = <<<<seed, 0>>>>
    /\ UNCHANGED <<inputs, visited, tasks, readyq, retval, claimed, fetched, run, prev>>

\* the innermost frame is at pc
Executing(pc) ==
    /\ impl = "crawler"
    /\ phase = "running"
    /\ stack # <<>>
    /\ stack[Len(stack)].pc = pc

Top == stack[Len(stack)]

\* the innermost crawl returns res: to main, or into the caller's result.update
\* at line 31, whose loop goes on with the next link
Return(res) ==
    LET n == Len(stack) IN
    IF n = 1
    THEN /\ phase' = "returned"
         /\ retval' = res
         /\ stack' = <<>>
    ELSE /\ stack' = [SubSeq(stack, 1, n - 1) EXCEPT
                         ![n - 1].result = Update(stack[n - 1].result, res),
                         ![n - 1].i = stack[n - 1].i + 1]
         /\ UNCHANGED <<phase, retval>>

\* SyncPruned without the visited test
SyncPrunedIgnoresVisited(url, cd) == cd > depth

\* SyncPruned without the depth test
SyncPrunedIgnoresDepth(url, cd) == url \in visited

\* crawl 13: current_depth > depth or url in visited
SyncPruned(url, cd) == cd > depth \/ url \in visited

\* SyncRecurses off by one
SyncRecursesAtBound(cd) == cd <= depth

\* crawl 29: current_depth < depth
SyncRecurses(cd) == cd < depth

\* crawl 13-14
SyncPrune ==
    /\ Executing("entry")
    /\ SyncPruned(Top.url, Top.cd)
    /\ Return(EmptyDict)
    /\ UNCHANGED <<inputs, visited, tasks, readyq, claimed, fetched, calls, run, prev>>

\* crawl 16-17
SyncClaim ==
    /\ Executing("entry")
    /\ ~SyncPruned(Top.url, Top.cd)
    /\ visited' = visited \cup {Top.url}
    /\ stack' = [stack EXCEPT ![Len(stack)].pc = "get",
                              ![Len(stack)].result = (Top.url :> <<>>)]
    /\ claimed' = Append(claimed, <<Top.url, Top.cd>>)
    /\ UNCHANGED <<inputs, phase, tasks, readyq, retval, fetched, calls, run, prev>>

\* crawl 20-21: requests.get answers, whatever the status; the body is parsed
SyncGetOk ==
    /\ Executing("get")
    /\ Served(Top.url)
    /\ stack' = [stack EXCEPT ![Len(stack)].pc = "loop"]
    /\ fetched' = Append(fetched, Top.url)
    /\ UNCHANGED <<inputs, phase, visited, tasks, readyq, retval, claimed, calls, run, prev>>

\* crawl 20, 33-37: requests.get raises a RequestException (no connection, or a
\* url requests cannot prepare); caught, the frame returns its result
SyncGetFailed ==
    /\ Executing("get")
    /\ ~Served(Top.url)
    /\ Return(Top.result)
    /\ fetched' = Append(fetched, Top.url)
    /\ UNCHANGED <<inputs, visited, tasks, readyq, claimed, calls, run, prev>>

Href == site[Top.url][Top.i]

\* crawl 23-25: an <a> with an empty href
SyncSkipLink ==
    /\ Executing("loop")
    /\ Top.i <= Len(site[Top.url])
    /\ Href = EmptyRef
    /\ stack' = [stack EXCEPT ![Len(stack)].i = Top.i + 1]
    /\ UNCHANGED <<inputs, phase, visited, tasks, readyq, retval, claimed, fetched, calls, run, prev>>

\* crawl 26-27: urljoin or is_valid raises ValueError, which no frame catches
\* (33 catches requests.RequestException only): crawl raises out of main
SyncLinkRaises ==
    /\ Executing("loop")
    /\ Top.i <= Len(site[Top.url])
    /\ Href # EmptyRef
    /\ UrljoinRaises(Top.url, Href) \/ UrlparseRaises(urljoin(Top.url, Href))
    /\ phase' = "raised"
    /\ stack' = <<>>
    /\ UNCHANGED <<inputs, visited, tasks, readyq, retval, claimed, fetched, calls, run, prev>>

\* crawl 26-31: the joined link is dropped if not valid, else recorded and, below
\* the depth, crawled at once
SyncLink ==
    /\ Executing("loop")
    /\ Top.i <= Len(site[Top.url])
    /\ Href # EmptyRef
    /\ ~(UrljoinRaises(Top.url, Href) \/ UrlparseRaises(urljoin(Top.url, Href)))
    /\ LET full_url == urljoin(Top.url, Href)
           n == Len(stack)
       IN  IF ~is_valid(full_url)
           THEN /\ stack' = [stack EXCEPT ![n].i = Top.i + 1]
                /\ UNCHANGED calls
           ELSE IF SyncRecurses(Top.cd)
           THEN /\ stack' = Append([stack EXCEPT ![n].result[Top.url] = Append(@, full_url)],
                                   NewFrame(full_url, Top.cd + 1))
                /\ calls' = Append(calls, <<full_url, Top.cd + 1>>)
           ELSE /\ stack' = [stack EXCEPT ![n].result[Top.url] = Append(@, full_url),
                                          ![n].i = Top.i + 1]
                /\ UNCHANGED calls
    /\ UNCHANGED <<inputs, phase, visited, tasks, readyq, retval, claimed, fetched, run, prev>>

\* crawl 37
SyncReturn ==
    /\ Executing("loop")
    /\ Top.i > Len(site[Top.url])
    /\ Return(Top.result)
    /\ UNCHANGED <<inputs, visited, tasks, readyq, claimed, fetched, calls, run, prev>>

(***************************************************************************)
(* A second invocation with the same request against the same site: every  *)
(* invocation starts from a fresh visited set (visited=None).              *)
(***************************************************************************)
Rerun ==
    /\ run = 1
    /\ phase \in {"returned", "raised"}
    /\ prev' = [phase |-> phase, retval |-> retval]
    /\ run' = 2
    /\ phase' = "request"
    /\ visited' = {}
    /\ tasks' = <<>>
    /\ readyq' = <<>>
    /\ stack' = <<>>
    /\ retval' = EmptyDict
    /\ claimed' = <<>>
    /\ fetched' = <<>>
    /\ calls' = <<>>
    /\ UNCHANGED inputs

Next ==
    \/ Post
    \/ \E t \in 1..Len(tasks) : ApiPrune(t)
    \/ \E t \in 1..Len(tasks) : ApiClaim(t)
    \/ \E t \in 1..Len(tasks) : ApiFetchDone(t)
    \/ \E t \in 1..Len(tasks) : ApiFetchFailed(t)
    \/ \E t \in 1..Len(tasks) : ApiParse(t)
    \/ \E t \in 1..Len(tasks) : ApiMerge(t)
    \/ Main
    \/ SyncPrune
    \/ SyncClaim
    \/ SyncGetOk
    \/ SyncGetFailed
    \/ SyncSkipLink
    \/ SyncLinkRaises
    \/ SyncLink
    \/ SyncReturn
    \/ Rerun

Spec == Init /\ [][Next]_vars

\* the event loop runs every ready task, every request ends (response, error or
\* timeout), and the interpreter runs the recursion on
FairSpec == Spec /\ WF_vars(Next)


(***************************************************************************)
(* Properties.                                                             *)
(***************************************************************************)
ClaimedUrls == {claimed[i][1] : i \in 1..Len(claimed)}

\* the pages whose body the crawl scans: api.py only after a success status,
\* crawler.py after any response
Parsed(u) == u \in Pages /\ (IF impl = "api" THEN outcome[u] = "ok" ELSE outcome[u] # "conn")

\* the links the scan of u records
LinksOf(u) == Scan(u, site[u], <<>>).links

NoRepeat(log) == \A i, j \in 1..Len(log) : i # j => log[i] # log[j]

\* C1: within one invocation no URL is added to the visited set more than once
\* and no URL is requested more than once, whatever the order of the child
\* crawls and whatever the links (cycles, self-links, repeated links, diamonds)
C1_ClaimedAndFetchedOnce ==
    /\ NoRepeat([i \in 1..Len(claimed) |-> claimed[i][1]])
    /\ NoRepeat(fetched)

\* a diamond crawled to the end by concurrent children: D was called for twice
\* and claimed once
C1_Witness ==
    /\ impl = "api" /\ site = Diamond /\ phase = "returned"
    /\ Len(claimed) = 4
    /\ Cardinality({i \in 1..Len(calls) : calls[i][1] = D}) = 2

Ended == phase \in {"returned", "raised"}

NoBranchLeft ==
    /\ \A t \in 1..Len(tasks) : tasks[t].pc = "done"
    /\ readyq = <<>>
    /\ stack = <<>>

C3_FetchFailureIsLocal ==
    /\ phase = "raised" => \E u \in ClaimedUrls : Parsed(u) /\ Scan(u, site[u], <<>>).raised
    /\ phase = "returned" =>
          \A u \in ClaimedUrls :
              /\ u \in DOMAIN retval
              /\ retval[u] = IF Parsed(u) THEN LinksOf(u) ELSE <<>>

\* the seed links to three pages and the fetch of one of them fails
C3_Witness ==
    /\ site = Fan /\ seed = A /\ outcome[C] = "conn" /\ phase = "returned"
    /\ {A, B, C, D} \subseteq DOMAIN retval
    /\ retval[A] = <<B, C, D>>
    /\ retval[C] = <<>>

\* C4: a started crawl never raises, and for a depth >= 0 the dict it returns
\* has the seed's record
C4_NeverFailsAsAWhole ==
    /\ phase # "raised"
    /\ phase = "returned" /\ depth >= 0 => seed \in DOMAIN retval

\* C5: every key of the returned dict has a scheme and a netloc
C5_KeysAreCrawlable ==
    phase = "returned" => \A k \in DOMAIN retval : is_valid_api(k)

\* C6: every URL is claimed at a depth from 0 to the depth of the request,
\* only claimed URLs are requested, and the depth in the returned dict lies in
\* the same range
C6_DepthWithinBound ==
    /\ \A i \in 1..Len(claimed) : claimed[i][2] \in 0..depth
    /\ \A i \in 1..Len(fetched) : fetched[i] \in ClaimedUrls
    /\ phase = "returned" /\ DepthKey \in DOMAIN retval => retval[DepthKey] \in 0..depth

\* a returned crawl that claimed a page with links at the depth of the request
C6_Witness ==
    /\ phase = "returned" /\ impl = "api"
    /\ DepthKey \in DOMAIN retval
    /\ retval[DepthKey] = depth
    /\ \E i \in 1..Len(claimed) : claimed[i][2] = depth /\ retval[claimed[i][1]] # <<>>

\* C7: no child crawl is called from a page claimed at the depth of the
\* request, whose links are recorded all the same; with depth 0 the returned
\* dict has the seed's record and no other URL's
C7_LinksAtMaxDepthNotCrawled ==
    /\ \A i \in 2..Len(calls) : calls[i][2] <= depth
    /\ phase = "returned" =>
          \A i \in 1..Len(claimed) :
              claimed[i][2] = depth /\ Parsed(claimed[i][1])
                  => retval[claimed[i][1]] = LinksOf(claimed[i][1])
    /\ phase = "returned" /\ depth = 0 => DOMAIN retval \ {DepthKey} = {seed}

\* depth 0 on a seed that links elsewhere
C7_Witness ==
    /\ phase = "returned" /\ depth = 0 /\ seed = A
    /\ A \in DOMAIN retval
    /\ Len(retval[A]) >= 2
    /\ Len(calls) = 1

\* C8: the returned dict gives for every URL in it the depth it was claimed at
\* (the depth it holds is that of each of its URLs); on the mutual-link site,
\* every fetch succeeding, it has the two records of A and B
C8_RecordsClaimDepth ==
    phase = "returned" /\ impl = "api" =>
        /\ \A i \in 1..Len(claimed) :
              DepthKey \in DOMAIN retval /\ retval[DepthKey] = claimed[i][2]
        /\ site = Mutual /\ (\A p \in Pages : outcome[p] = "ok")
              => DOMAIN retval \ {DepthKey} = {A, B}

\* the URLs within k links of the seed, over the pages the crawl can scan
RECURSIVE Within(_)
Within(k) ==
    IF k = 0 THEN {seed}
    ELSE LET w == Within(k - 1)
         IN  w \cup UNION {{LinksOf(u)[i] : i \in 1..Len(LinksOf(u))} : u \in {v \in w : Parsed(v)}}

Dist(u) == CHOOSE k \in 0..Cardinality(Pages) : u \in Within(k) /\ (k = 0 \/ u \notin Within(k - 1))

\* C9: every URL is claimed at the depth that is the length of the shortest
\* link path from the seed to it
C9_ClaimDepthIsShortestPath ==
    \A i \in 1..Len(claimed) : claimed[i][2] = Dist(claimed[i][1])

\* C10: a second crawl of the same request on the same site returns the dict
\* the first one returned
C10_RerunReturnsTheSame ==
    run = 2 /\ phase = "returned" /\ prev.phase = "returned" => retval = prev.retval


\* the URL keys of a result: its keys but for the bookkeeping key of api.py
UrlKeys(d) == DOMAIN d \ {DepthKey}

\* C11: when the top-level crawl returns, the URL keys of its result are
\* exactly the claimed URLs, the seed and the failed fetches included
C11_KeysAreTheClaimedUrls ==
    phase = "returned" => UrlKeys(retval) = visited /\ visited = ClaimedUrls

\* a fan of three pages, one of them answering an error status, all four keyed
C11_Witness ==
    /\ phase = "returned"
    /\ site = Fan
    /\ outcome[B] = "status"
    /\ visited = {A, B, C, D}
    /\ UrlKeys(retval) = {A, B, C, D}


\* post 176-195: the status of the answer, once there is one
StatusCode ==
    CASE phase = "rejected" -> "400"
      [] phase = "returned" -> "200"
      [] phase = "raised"   -> "500"
      [] OTHER              -> "none"

\* a request the interface accepts: a crawlable url and a depth that is a JSON
\* integer, so neither true nor false, and at least 1
WellFormedRequest == is_valid_api(seed) /\ depthIsInt /\ ~depthIsBool /\ depth >= 1

\* C12: a POST whose url is not crawlable or whose depth is not an integer of
\* at least 1 is answered 400 with no crawl call, claim or fetch; any other
\* POST is never answered 400 or 500, whatever fetches fail
C12_BadRequestRejected ==
    impl = "api" /\ phase # "request" =>
        IF WellFormedRequest
        THEN StatusCode \in {"none", "200"}
        ELSE StatusCode = "400" /\ calls = <<>> /\ claimed = <<>> /\ fetched = <<>>


\* the tasks and the frames past the test of line 81 (api.py) or 13
\* (crawler.py) for u: a claiming call carries the record of its URL from the
\* claim on
ApiPassedTest(u) == {t \in 1..Len(tasks) : tasks[t].url = u /\ u \in DOMAIN tasks[t].result}
SyncPassedTest(u) == {i \in 1..Len(stack) : stack[i].url = u /\ stack[i].pc # "entry"}

\* C13: every URL whose request was issued, answered or not, is in visited,
\* and no two calls are past the visited test for the same URL
C13_ClaimedBeforeFetched ==
    /\ \A i \in 1..Len(fetched) : fetched[i] \in visited
    /\ \A t \in 1..Len(tasks) : tasks[t].pc \in {"fetching", "fetched"} => tasks[t].url \in visited
    /\ \A i \in 1..Len(stack) : stack[i].pc \in {"get", "loop"} => stack[i].url \in visited
    /\ \A u \in visited \cup {seed} \cup Pages :
           Cardinality(ApiPassedTest(u)) <= 1 /\ Cardinality(SyncPassedTest(u)) <= 1

\* a request for a URL is in flight while a second call for the same URL is
\* ready to run its test
C13_Witness ==
    \E t1, t2 \in 1..Len(tasks) :
        /\ tasks[t1].url = tasks[t2].url
        /\ tasks[t1].pc = "fetching"
        /\ tasks[t2].pc = "start"


\* the fetch error the result d holds for u: fetch logs the exception and
\* returns None (api.py 70-73), crawl prints it (crawler.py 33-35), and the
\* result keeps {url: []} as the claim made it, with no place for an error
RecordedError(d, u) == "none"

\* the calls made from the crawl of a page whose fetch failed
ChildrenOfFailed ==
    {t \in 1..Len(tasks) : tasks[t].parent # 0 /\ ~Parsed(tasks[tasks[t].parent].url)}
        \cup {i \in 2..Len(stack) : ~Parsed(stack[i - 1].url)}

\* C14: a claimed URL whose fetch fails gets a record with an empty link list
\* and the fetch error, and no child crawl is started from it
C14_FailedFetchRecorded ==
    /\ ChildrenOfFailed = {}
    /\ phase = "returned" =>
           \A u \in ClaimedUrls : ~Parsed(u) =>
               /\ u \in DOMAIN retval
               /\ retval[u] = <<>>
               /\ RecordedError(retval, u) # "none"


\* the results the gather of t hands to the loop of lines 107-109, in order
KidResults(t) == [i \in 1..Len(tasks[t].kids) |-> tasks[tasks[t].kids[i]].result]

\* the keys two dicts share
CommonKeys(d, e) == (DOMAIN d) \cap (DOMAIN e)

\* C15: when a crawl merges a child's result into its own, the two dicts share
\* no key: not the caller's result and a child's, nor two children's, which
\* the caller's result holds one after the other
C15_MergeOverwritesNothing ==
    /\ \A t \in 1..Len(tasks) : tasks[t].pc = "gathering" /\ GatherDone(tasks, t) =>
           LET kids == KidResults(t) IN
           /\ \A i \in 1..Len(kids) : CommonKeys(tasks[t].result, kids[i]) = {}
           /\ \A i, j \in 1..Len(kids) : i # j => CommonKeys(kids[i], kids[j]) = {}
    /\ \A i \in 2..Len(stack) : CommonKeys(stack[i - 1].result, stack[i].result) = {}


\* a step in which task t, past the depth or on a visited url, runs from its
\* start, and what the step leaves alone
ApiPrunedStep(t) ==
    /\ impl = "api" /\ phase = "running"
    /\ tasks[t].pc = "start"
    /\ tasks[t].cd > depth \/ tasks[t].url \in visited
    /\ t \in 1..Len(tasks') /\ tasks'[t].pc # "start"

ApiPrunedFrame(t) ==
    /\ tasks'[t].pc = "done" /\ tasks'[t].result = EmptyDict
    /\ phase' = "returned" => retval' = EmptyDict
    /\ Len(tasks') = Len(tasks)
    /\ \A s \in 1..Len(tasks) : s # t => tasks'[s].result = tasks[s].result /\ tasks'[s].kids = tasks[s].kids
    /\ visited' = visited /\ fetched' = fetched /\ claimed' = claimed /\ calls' = calls

\* the same for the innermost frame of crawler.py
SyncPrunedStep ==
    /\ impl = "crawler" /\ phase = "running" /\ stack # <<>>
    /\ Top.pc = "entry"
    /\ Top.cd > depth \/ Top.url \in visited
    /\ stack' # stack

SyncPrunedFrame ==
    /\ IF Len(stack) = 1
       THEN phase' = "returned" /\ retval' = EmptyDict
       ELSE /\ phase' = "running" /\ Len(stack') = Len(stack) - 1
            /\ \A i \in 1..Len(stack') : stack'[i].result = stack[i].result
    /\ visited' = visited /\ fetched' = fetched /\ claimed' = claimed /\ calls' = calls

\* C16: a call past the depth bound or on a URL already in visited returns an
\* empty result, issues no request, makes no call and leaves visited and every
\* other call's result as they were
C16_PrunedCallChangesNothing ==
    [][ /\ \A t \in 1..Len(tasks) : ApiPrunedStep(t) => ApiPrunedFrame(t)
        /\ SyncPrunedStep => SyncPrunedFrame ]_vars

\* crawler.py in the loop of a page after a call on one of its links was
\* pruned: every call but that one has claimed its URL
C16_Witness ==
    /\ impl = "crawler"
    /\ phase = "running"
    /\ stack # <<>>
    /\ \A i \in 1..Len(stack) : stack[i].pc = "loop"
    /\ Len(calls) = Len(claimed) + 1
    /\ Cardinality(visited) = Len(claimed)


\* C17: a page answered with an error status is a failed fetch in both
\* implementations: its body is not scanned, no crawl is called from it and
\* its record has no links
C17_ErrorStatusIsFailure ==
    \A u \in Pages : outcome[u] = "status" =>
        /\ \A t \in 1..Len(tasks) : tasks[t].url = u => tasks[t].pc # "gathering" /\ tasks[t].kids = <<>>
        /\ \A i \in 1..Len(stack) : stack[i].url = u => stack[i].pc # "loop"
        /\ phase = "returned" /\ u \in DOMAIN retval => retval[u] = <<>>


\* the requests issued and not yet answered
InFlight ==
    Cardinality({t \in 1..Len(tasks) : tasks[t].pc = "fetching"})
        + Cardinality({i \in 1..Len(stack) : stack[i].pc = "get"})

\* C18: the fetches in flight at one time never exceed a fixed number, whatever
\* the number of links of a page
C18_InFlightBounded == InFlight <= MaxInFlight


\* every fetch succeeds and no href makes the scan of a page raise
AllFetchesSucceed ==
    \A p \in Pages : outcome[p] = "ok" /\ ~Scan(p, site[p], <<>>).raised

\* C19: when all fetches succeed, every URL within depth links of the seed has
\* its record in the returned result
C19_CompleteWithinDepth ==
    phase = "returned" /\ depth >= 0 /\ AllFetchesSucceed =>
        Within(depth) \subseteq DOMAIN retval


\* the links the result d records for the page p
Recorded(d, p) == {d[p][i] : i \in 1..Len(d[p])}

\* C20: in a returned result every URL key but the seed is among the recorded
\* links of another key, one claimed earlier and at exactly one depth less
C20_ClaimsFormATree ==
    phase = "returned" =>
        \A u \in UrlKeys(retval) \ {seed} :
            \E i, j \in 1..Len(claimed) :
                /\ claimed[i][1] = u
                /\ j < i
                /\ claimed[j][1] # u
                /\ claimed[j][2] = claimed[i][2] - 1
                /\ claimed[j][1] \in UrlKeys(retval)
                /\ u \in Recorded(retval, claimed[j][1])

\* api.py on a diamond whose far corner was claimed by the call made from the
\* second of its two parents
C20_Witness ==
    /\ impl = "api"
    /\ phase = "returned"
    /\ site = Diamond
    /\ claimed = <<<<A, 0>>, <<B, 1>>, <<C, 1>>, <<D, 2>>>>
    /\ \E t \in 1..Len(tasks) :
           /\ tasks[t].url = D
           /\ D \in DOMAIN tasks[t].result
           /\ tasks[tasks[t].parent].url = C

====
